---- MODULE Spec2Model ----
(***************************************************************************)
(* A model of the scan session of escl-protocol-scanner:                   *)
(* Application.quickScan (src/src/core/application.ts) driving one device  *)
(* through job creation, the NextDocument page loop with its 409 retry     *)
(* loop, and the job DELETE.  The device and the network are the           *)
(* environment: every HTTP request is answered by a status, times out or   *)
(* fails on the connection.  The file system is taken to be reliable       *)
(* (writeFileSync does not throw).                                         *)
(***************************************************************************)
EXTENDS Integers, Sequences, FiniteSets

\* ---------------------------------------------------------------- bounds
\* Number of documents the device can deliver in one session.
MaxPages == 3

\* ------------------------------------------------------ program constants
\* downloadNextDocument(jobUrl, 30, 1000, isAdf): the attempt bound.
maxRetries == 30

\* -------------------------------------------------------------- inputs
Modes == {"bw", "gray", "color", "sepia"}
Sources == {"Platen", "Feeder", "Adf"}

\* A mapping that falls back to colour for an unknown mode.
colorModeMapFallback(m) ==
    CASE m = "bw" -> "BlackAndWhite1"
      [] m = "gray" -> "Grayscale8"
      [] OTHER -> "RGB24"

\* colorModeMap[mode]; "" stands for undefined.
colorModeMap(m) ==
    CASE m = "bw" -> "BlackAndWhite1"
      [] m = "gray" -> "Grayscale8"
      [] m = "color" -> "RGB24"
      [] OTHER -> ""

\* A comparison that takes every source for the feeder.
isAdfAlways(src) == src = src

\* const isAdf = source === "Feeder"
isAdf(src) == src = "Feeder"

\* ------------------------------------------------ the device's answers
\* What the network delivers for one request: an HTTP status, a timeout of
\* the request, or a connection error.
PageStatuses == {200, 404, 409, 500, 503}
PageReplies ==
    {[kind |-> "http", status |-> s] : s \in PageStatuses}
        \cup {[kind |-> "timeout", status |-> 0], [kind |-> "neterr", status |-> 0]}

CreateStatuses == {200, 201, 409, 500, 503, 400}
\* resolve(data || res.headers.location || '')
JobUrlBody == "/eSCL/ScanJobs/a1"
JobUrlLocation == "/eSCL/ScanJobs/b2"
Bodies == {"", "<html/>", JobUrlBody}
Locations == {"", JobUrlLocation}
CreateReplies ==
    {[kind |-> "http", status |-> s, body |-> b, location |-> l] :
        s \in CreateStatuses, b \in Bodies, l \in Locations}
        \cup {[kind |-> "timeout", status |-> 0, body |-> "", location |-> ""],
              [kind |-> "neterr", status |-> 0, body |-> "", location |-> ""]}

DeleteReplies ==
    {[kind |-> "http", status |-> s] : s \in {200, 404, 500}}
        \cup {[kind |-> "timeout", status |-> 0], [kind |-> "neterr", status |-> 0]}

\* No DELETE has been answered yet.
NoDelete == [kind |-> "none", status |-> 0]

\* ------------------------------------------------------- error objects
\* A rejected request is an Error with an optional code and a message.
\* code: the numeric HTTP status set on the error, 0 when the property is
\* absent (falsy), -1 for the string code of a connection error
\* (ECONNREFUSED...). msg: the number following "HTTP " in the message, 0
\* when the message has none (parseInt gives NaN).
\* Application.httpGetBinary: resolves on 200, else rejects with
\* error.code = statusCode and message "HTTP <status>".
httpGetBinaryError(reply) ==
    CASE reply.kind = "timeout" -> [code |-> 0, msg |-> 0]
      [] reply.kind = "neterr" -> [code |-> -1, msg |-> 0]
      [] OTHER -> [code |-> reply.status, msg |-> reply.status]

httpGetBinaryOk(reply) == reply.kind = "http" /\ reply.status = 200

\* ESCLClient.httpPost: resolves on 200/201, else rejects with message
\* "HTTP <status>" and no code.
httpPostOk(reply) == reply.kind = "http" /\ reply.status \in {200, 201}

httpPostError(reply) ==
    CASE reply.kind = "timeout" -> [code |-> 0, msg |-> 0]
      [] reply.kind = "neterr" -> [code |-> -1, msg |-> 0]
      [] OTHER -> [code |-> 0, msg |-> reply.status]

httpPostData(reply) == IF reply.body # "" THEN reply.body ELSE reply.location

\* error.code || parseInt(error.message?.match(/HTTP (\d+)/)?.[1])
statusCode(error) == IF error.code # 0 THEN error.code ELSE error.msg

\* jobResponse.match(/\/eSCL\/ScanJobs\/([a-f0-9-]+)/); "" stands for null.
jobMatch(jobResponse) ==
    CASE jobResponse = JobUrlBody -> "a1"
      [] jobResponse = JobUrlLocation -> "b2"
      [] OTHER -> ""

\* ESCLClient.createScanJob's catch block: the error thrown for a failed
\* creation request.
createScanJobError(error, src) ==
    CASE statusCode(error) = 409 -> "SCANNER_BUSY"
      [] statusCode(error) = 500 /\ src = "Feeder" -> "ADF_NO_DOCUMENT"
      [] statusCode(error) = 503 -> "SCANNER_UNAVAILABLE"
      [] OTHER -> "TRANSPORT"

\* A catch block that waits and retries on 404 as it does on 409.
downloadNextDocumentCatch404Retry(error, adf) ==
    CASE statusCode(error) = 404 -> "retry"
      [] statusCode(error) = 409 -> "retry"
      [] statusCode(error) = 500 /\ adf -> "throw"
      [] OTHER -> "null"

\* A catch block without the 500 branch.
downloadNextDocumentCatchNo500(error, adf) ==
    CASE statusCode(error) = 404 -> "null"
      [] statusCode(error) = 409 -> "retry"
      [] OTHER -> "null"

\* downloadNextDocument's catch block: what one failed page request leads
\* to: "null" (return null), "retry" (delay and continue) or "throw".
downloadNextDocumentCatch(error, adf) ==
    CASE statusCode(error) = 404 -> "null"
      [] statusCode(error) = 409 -> "retry"
      [] statusCode(error) = 500 /\ adf -> "throw"
      [] OTHER -> "null"

\* A loop bound that is off by one.
attemptAllowedOffByOne(a) == a <= maxRetries + 1

\* for (let attempt = 1; attempt <= maxRetries; attempt++)
attemptAllowed(a) == a <= maxRetries

\* A loop that never takes a missing page for a failure.
firstPageFailedNever(page) == page < 1

\* A check that takes the second page for the first.
firstPageFailedOffByOne(page) == page = 2

\* if (pageNum === 1) throw new Error("Failed to download scan result.")
firstPageFailed(page) == page = 1

\* A file name without the page index.
saveImageNoPageIndex(page) == [name |-> "scan", page |-> 0]

\* saveImage: the path of the file of one page (the timestamp and the
\* extension are the same for every page of a session).
saveImage(page) == [name |-> "scan", page |-> page]

\* fs.writeFileSync(filePath, imageBuffer): creates or overwrites.
writeFileSync(files, path, data) ==
    {f \in files : f.path # path} \cup {[path |-> path, data |-> data]}

\* ---------------------------------------------------------------- state
VARIABLES
    pc,         \* position of quickScan
    mode,       \* params.mode
    source,     \* params.source
    jobId,      \* the job id returned by createScanJob, "" before
    pageNum,    \* let pageNum
    attempt,    \* downloadNextDocument's loop counter
    filePaths,  \* const filePaths
    disk,       \* files written by saveImage
    ret,        \* "pending", "paths", "null" or "throw"
    err,        \* the error thrown, "" when none
    inflight,   \* requests issued and not yet answered or failed, by kind
    issued,     \* requests issued so far, by kind
    delivered,  \* 200 answers to NextDocument so far
    lastReply,  \* the last answer to a NextDocument request
    deleteReply, \* the answer to the job DELETE, NoDelete before it
    pageReqs,   \* NextDocument requests issued for the current page
    colorMode,  \* const colorMode = colorModeMap[mode], "" before the call
    warmups     \* warm-up delays started so far

vars == <<pc, mode, source, jobId, pageNum, attempt, filePaths, disk, ret, err,
          inflight, issued, delivered, lastReply, deleteReply, pageReqs, colorMode,
          warmups>>

\* The state of the protocol client's functions, called on their own.
VARIABLES
    call,       \* the function called last and its arguments
    out         \* what it returned or threw

cvars == <<call, out>>

NoCall == [fn |-> "none"]

ClientIdle == call = NoCall /\ out = NoCall

\* The state of one ESCLDiscovery instance and of the helper processes it
\* has spawned.
VARIABLES
    env,            \* what the constructor and validatePythonPath find
    pythonProcess,  \* this.pythonProcess: the number of a helper, 0 for null
    discovered,     \* this.discovered, in insertion order
    listeners,      \* this.listeners: the calls whose responseHandler is registered
    procs,          \* the helpers spawned, by the number of the spawning call
    killTimers,     \* the number of cleanup's 1000 ms timers not yet fired
    started,        \* the number of startDiscovery calls made
    resolved,       \* the calls whose resolved flag is true
    timeoutHandle,  \* the call whose discovery timer is armed, 0 for none
    promise,        \* the promise of the latest call
    settles,        \* how often resolve or reject was called on that promise
    chunk,          \* the stdout data handler: not running, in its loop, or left it
    firstSuccess    \* the first success line received since the latest call began

dvars == <<env, pythonProcess, discovered, listeners, procs, killTimers, started,
           resolved, timeoutHandle, promise, settles, chunk, firstSuccess>>

\* Largest number of startDiscovery calls on the instance.
MaxAttempts == 2
\* Largest number of scanners in a success line.
MaxScanners == 2

NoProc == [st |-> "unborn", backend |-> "", listSent |-> FALSE, exitSent |-> FALSE,
           killed |-> FALSE]
\* A helper that has exited.
Exited == [NoProc EXCEPT !.st = "exited"]
NoPromise == [state |-> "none", success |-> FALSE, data |-> <<>>, by |-> ""]
NoLine == [kind |-> "none"]

\* The instance before its first startDiscovery call.
DiscIdleWith(e) ==
    /\ env = e
    /\ pythonProcess = 0
    /\ discovered = <<>>
    /\ listeners = {}
    /\ procs = [p \in 1..MaxAttempts |-> NoProc]
    /\ killTimers = 0
    /\ started = 0
    /\ resolved = {}
    /\ timeoutHandle = 0
    /\ promise = NoPromise
    /\ settles = 0
    /\ chunk = "none"
    /\ firstSuccess = NoLine

DiscIdle ==
    DiscIdleWith([pythonPathGiven |-> FALSE, binaryExists |-> TRUE, pythonPathFound |-> TRUE])

\* What a quickScan session leaves alone.
offScan == <<cvars, dvars>>

NoReply == [kind |-> "none", status |-> 0]

Init ==
    /\ pc = "Created"
    /\ mode \in Modes
    /\ source \in Sources
    /\ jobId = ""
    /\ pageNum = 0
    /\ attempt = 0
    /\ filePaths = <<>>
    /\ disk = {}
    /\ ret = "pending"
    /\ err = ""
    /\ inflight = [create |-> 0, page |-> 0, delete |-> 0]
    /\ issued = [create |-> 0, page |-> 0, delete |-> 0]
    /\ delivered = 0
    /\ lastReply = NoReply
    /\ deleteReply = NoDelete
    /\ pageReqs = 0
    /\ colorMode = ""
    /\ warmups = 0
    /\ ClientIdle
    /\ DiscIdle

\* ------------------------------------------------------------- helpers
\* throw: the session ends with the error, whatever request is answered.
\* A failure that is not raised: the session waits and downloads again.
ThrowRewaits(e) ==
    /\ pc' = "Warmup"
    /\ ret' = ret
    /\ err' = e

\* A catch block that returns the pages saved so far instead of throwing.
ThrowReturnsSaved(e) ==
    /\ pc' = "Aborted"
    /\ ret' = IF Len(filePaths) > 0 THEN "paths" ELSE "throw"
    /\ err' = e

Throw(e) ==
    /\ pc' = "Aborted"
    /\ ret' = "throw"
    /\ err' = e

\* The most NextDocument requests a session of MaxPages pages can issue:
\* maxRetries for each page and for the request that ends the pages. The
\* count of issued requests is kept up to this number.
MaxIssued == maxRetries * (MaxPages + 1)

\* this.httpGetBinary(nextDocUrl): one NextDocument request goes out.
IssuePage(inf, iss) ==
    /\ inflight' = [inf EXCEPT !.page = @ + 1]
    /\ issued' = [iss EXCEPT !.page = IF @ < MaxIssued THEN @ + 1 ELSE @]

\* this.deleteScanJob(jobUrl) -> this.httpDelete(jobUrl)
IssueDelete(inf, iss) ==
    /\ inflight' = [inf EXCEPT !.delete = @ + 1]
    /\ issued' = [iss EXCEPT !.delete = @ + 1]

\* The loop's exit through break: the DELETE is issued.
BreakLoop(inf) ==
    /\ pc' = "Cleanup"
    /\ IssueDelete(inf, issued)
    /\ UNCHANGED <<ret, err>>

\* ------------------------------------------------------------- actions
\* quickScan is called: mode check, then createScanJob issues the POST.
QuickScan ==
    /\ pc = "Created"
    /\ IF colorModeMap(mode) = ""
         THEN /\ Throw("INVALID_MODE")
              /\ UNCHANGED <<inflight, issued>>
         ELSE /\ pc' = "JobRequested"
              /\ inflight' = [inflight EXCEPT !.create = @ + 1]
              /\ issued' = [issued EXCEPT !.create = @ + 1]
              /\ UNCHANGED <<ret, err>>
    /\ colorMode' = colorModeMap(mode)
    /\ UNCHANGED <<offScan, deleteReply, warmups, mode, source, jobId, pageNum, attempt, filePaths, disk,
                   delivered, lastReply, pageReqs>>

\* A session that requests the first page as soon as the job exists.
CreateAnsweredNoWarmup ==
    /\ pc = "JobRequested"
    /\ inflight.create > 0
    /\ \E reply \in CreateReplies :
        IF httpPostOk(reply)
          THEN IF jobMatch(httpPostData(reply)) # ""
                 THEN /\ jobId' = jobMatch(httpPostData(reply))
                      /\ pc' = "Downloading"
                      /\ pageNum' = 1
                      /\ attempt' = 1
                      /\ pageReqs' = 1
                      /\ IssuePage([inflight EXCEPT !.create = @ - 1], issued)
                      /\ UNCHANGED <<ret, err>>
                 ELSE /\ Throw("SCAN_JOB_FAILED")
                      /\ inflight' = [inflight EXCEPT !.create = @ - 1]
                      /\ UNCHANGED <<jobId, issued, pageNum, attempt, pageReqs>>
          ELSE /\ Throw(createScanJobError(httpPostError(reply), source))
               /\ inflight' = [inflight EXCEPT !.create = @ - 1]
               /\ UNCHANGED <<jobId, issued, pageNum, attempt, pageReqs>>
    /\ UNCHANGED <<offScan, deleteReply, colorMode, warmups, mode, source, filePaths, disk,
                   delivered, lastReply>>

\* A session that posts the creation request again after a 409, up to
\* three requests.
CreateAnsweredRetries409 ==
    /\ pc = "JobRequested"
    /\ inflight.create > 0
    /\ \E reply \in CreateReplies :
        IF httpPostOk(reply) /\ jobMatch(httpPostData(reply)) # ""
          THEN /\ jobId' = jobMatch(httpPostData(reply))
               /\ pc' = "Warmup"
               /\ warmups' = warmups + 1
               /\ inflight' = [inflight EXCEPT !.create = @ - 1]
               /\ UNCHANGED <<ret, err, issued>>
          ELSE IF ~httpPostOk(reply) /\ statusCode(httpPostError(reply)) = 409
                    /\ issued.create < 3
                 THEN /\ issued' = [issued EXCEPT !.create = @ + 1]
                      /\ UNCHANGED <<pc, ret, err, jobId, warmups, inflight>>
                 ELSE /\ Throw(IF httpPostOk(reply) THEN "SCAN_JOB_FAILED"
                               ELSE createScanJobError(httpPostError(reply), source))
                      /\ inflight' = [inflight EXCEPT !.create = @ - 1]
                      /\ UNCHANGED <<jobId, warmups, issued>>
    /\ UNCHANGED <<offScan, deleteReply, colorMode, mode, source, pageNum, attempt, filePaths, disk,
                   delivered, lastReply, pageReqs>>

\* The creation request is answered: createScanJob returns a job id or
\* null, or throws; quickScan starts the warm-up delay or throws.
CreateAnswered ==
    /\ pc = "JobRequested"
    /\ inflight.create > 0
    /\ \E reply \in CreateReplies :
        /\ inflight' = [inflight EXCEPT !.create = @ - 1]
        /\ IF httpPostOk(reply)
             THEN IF jobMatch(httpPostData(reply)) # ""
                    THEN /\ jobId' = jobMatch(httpPostData(reply))
                         /\ pc' = "Warmup"
                         /\ warmups' = warmups + 1
                         /\ UNCHANGED <<ret, err>>
                    ELSE /\ Throw("SCAN_JOB_FAILED")
                         /\ UNCHANGED <<jobId, warmups>>
             ELSE /\ Throw(createScanJobError(httpPostError(reply), source))
                  /\ UNCHANGED <<jobId, warmups>>
    /\ UNCHANGED <<offScan, deleteReply, colorMode, mode, source, pageNum, attempt, filePaths, disk, issued,
                   delivered, lastReply, pageReqs>>

\* await this.delay(5000) ends: the loop is entered and the first
\* NextDocument request of page 1 goes out.
WarmupElapsed ==
    /\ pc = "Warmup"
    /\ pc' = "Downloading"
    /\ pageNum' = 1
    /\ attempt' = 1
    /\ pageReqs' = 1
    /\ IssuePage(inflight, issued)
    /\ UNCHANGED <<offScan, deleteReply, colorMode, warmups, mode, source, jobId, filePaths, disk, ret, err, delivered,
                   lastReply>>

\* A loop that issues the DELETE after every saved page and goes on.
PageDeliveredDeleteInLoop ==
    /\ pc = "Downloading"
    /\ inflight.page > 0
    /\ delivered < MaxPages
    /\ \E reply \in {r \in PageReplies : httpGetBinaryOk(r)} :
        /\ lastReply' = reply
        /\ delivered' = delivered + 1
        /\ disk' = writeFileSync(disk, saveImage(pageNum), delivered + 1)
        /\ filePaths' = Append(filePaths, saveImage(pageNum))
        /\ IF ~isAdf(source)
             THEN /\ BreakLoop([inflight EXCEPT !.page = @ - 1])
                  /\ UNCHANGED <<pageNum, attempt, pageReqs>>
             ELSE /\ pageNum' = pageNum + 1
                  /\ attempt' = 1
                  /\ pageReqs' = 1
                  /\ inflight' = [inflight EXCEPT !.delete = @ + 1]
                  /\ issued' = [issued EXCEPT !.page = @ + 1, !.delete = @ + 1]
                  /\ UNCHANGED <<pc, ret, err>>
    /\ UNCHANGED <<offScan, deleteReply, colorMode, warmups, mode, source, jobId>>

\* A loop whose attempt counter belongs to the session: the next page goes
\* on counting where the page before it stopped.
PageDeliveredSharedBudget ==
    /\ pc = "Downloading"
    /\ inflight.page > 0
    /\ delivered < MaxPages
    /\ \E reply \in {r \in PageReplies : httpGetBinaryOk(r)} :
        /\ lastReply' = reply
        /\ delivered' = delivered + 1
        /\ disk' = writeFileSync(disk, saveImage(pageNum), delivered + 1)
        /\ filePaths' = Append(filePaths, saveImage(pageNum))
        /\ IF ~isAdf(source)
             THEN /\ BreakLoop([inflight EXCEPT !.page = @ - 1])
                  /\ UNCHANGED <<pageNum, attempt, pageReqs>>
             ELSE /\ pageNum' = pageNum + 1
                  /\ UNCHANGED <<attempt, pageReqs>>
                  /\ IssuePage([inflight EXCEPT !.page = @ - 1], issued)
                  /\ UNCHANGED <<pc, ret, err>>
    /\ UNCHANGED <<offScan, deleteReply, colorMode, warmups, mode, source, jobId>>

\* A NextDocument request is answered with 200: the page is saved; the
\* loop breaks (not isAdf) or goes on to the next page.
PageDelivered ==
    /\ pc = "Downloading"
    /\ inflight.page > 0
    /\ delivered < MaxPages
    /\ \E reply \in {r \in PageReplies : httpGetBinaryOk(r)} :
        /\ lastReply' = reply
        /\ delivered' = delivered + 1
        /\ disk' = writeFileSync(disk, saveImage(pageNum), delivered + 1)
        /\ filePaths' = Append(filePaths, saveImage(pageNum))
        /\ IF ~isAdf(source)
             THEN /\ BreakLoop([inflight EXCEPT !.page = @ - 1])
                  /\ UNCHANGED <<pageNum, attempt, pageReqs>>
             ELSE /\ pageNum' = pageNum + 1
                  /\ attempt' = 1
                  /\ pageReqs' = 1
                  /\ IssuePage([inflight EXCEPT !.page = @ - 1], issued)
                  /\ UNCHANGED <<pc, ret, err>>
    /\ UNCHANGED <<offScan, deleteReply, colorMode, warmups, mode, source, jobId>>

\* A NextDocument request fails (non-200 status, timeout, connection
\* error): downloadNextDocument returns null, starts the retry delay or
\* throws; on null quickScan throws (page 1) or breaks.
PageFailed ==
    /\ pc = "Downloading"
    /\ inflight.page > 0
    /\ \E reply \in {r \in PageReplies : ~httpGetBinaryOk(r)} :
        LET outcome == downloadNextDocumentCatch(httpGetBinaryError(reply), isAdf(source))
            inf == [inflight EXCEPT !.page = @ - 1]
        IN  /\ lastReply' = reply
            /\ CASE outcome = "retry" ->
                      /\ pc' = "RetryDelay"
                      /\ inflight' = inf
                      /\ UNCHANGED <<ret, err, issued>>
                 [] outcome = "throw" ->
                      /\ Throw("ADF_NO_DOCUMENT")
                      /\ inflight' = inf
                      /\ UNCHANGED issued
                 [] OTHER ->
                      IF firstPageFailed(pageNum)
                        THEN /\ Throw("DOWNLOAD_FAILED")
                             /\ inflight' = inf
                             /\ UNCHANGED issued
                        ELSE BreakLoop(inf)
    /\ UNCHANGED <<offScan, deleteReply, colorMode, warmups, mode, source, jobId, pageNum, attempt, filePaths, disk,
                   delivered, pageReqs>>

\* A retry timer that does not wait for the request before it to be
\* answered.
RetryElapsedNoAwait ==
    /\ pc \in {"RetryDelay", "Downloading"}
    /\ attempt' = attempt + 1
    /\ IF attemptAllowed(attempt + 1)
         THEN /\ pc' = "Downloading"
              /\ pageReqs' = pageReqs + 1
              /\ IssuePage(inflight, issued)
              /\ UNCHANGED <<ret, err>>
         ELSE /\ Throw("SCANNER_BUSY")
              /\ UNCHANGED <<inflight, issued, pageReqs>>
    /\ UNCHANGED <<offScan, deleteReply, colorMode, warmups, mode, source, jobId, pageNum, filePaths, disk, delivered,
                   lastReply>>

\* await this.delay(retryDelay) ends: attempt++, then the next request for
\* the same page, or SCANNER_BUSY once the attempts are used up.
RetryElapsed ==
    /\ pc = "RetryDelay"
    /\ attempt' = attempt + 1
    /\ IF attemptAllowed(attempt + 1)
         THEN /\ pc' = "Downloading"
              /\ pageReqs' = pageReqs + 1
              /\ IssuePage(inflight, issued)
              /\ UNCHANGED <<ret, err>>
         ELSE /\ Throw("SCANNER_BUSY")
              /\ UNCHANGED <<inflight, issued, pageReqs>>
    /\ UNCHANGED <<offScan, deleteReply, colorMode, warmups, mode, source, jobId, pageNum, filePaths, disk, delivered,
                   lastReply>>

\* A deleteScanJob whose catch block throws the failure on.
deleteScanJobRethrows(reply) ==
    IF reply.kind = "http" THEN "returns" ELSE "throws"

\* deleteScanJob: await this.httpDelete(jobUrl) inside try/catch.
\* httpDelete resolves on every status and rejects on a timeout or a
\* connection error; the catch block is empty, so the call completes
\* normally on every answer.
deleteScanJob(reply) == "returns"

\* The DELETE is answered or fails: deleteScanJob swallows the failure and
\* quickScan returns.
DeleteAnswered ==
    /\ pc = "Cleanup"
    /\ inflight.delete > 0
    /\ \E reply \in DeleteReplies :
        /\ inflight' = [inflight EXCEPT !.delete = @ - 1]
        /\ deleteReply' = reply
        /\ IF deleteScanJob(reply) = "throws"
             THEN Throw("DELETE_FAILED")
             ELSE /\ pc' = "Done"
                  /\ ret' = IF Len(filePaths) > 0 THEN "paths" ELSE "null"
                  /\ UNCHANGED err
    /\ UNCHANGED <<offScan, colorMode, warmups, mode, source, jobId, pageNum, attempt, filePaths, disk,
                   issued, delivered, lastReply, pageReqs>>

Next ==
    \/ QuickScan
    \/ CreateAnswered
    \/ WarmupElapsed
    \/ PageDelivered
    \/ PageFailed
    \/ RetryElapsed
    \/ DeleteAnswered

Spec == Init /\ [][Next]_vars

\* ------------------------------------------------------ termination
\* A 200 answer for a page past MaxPages of a source for which the loop
\* goes on: the page is saved, downloadNextDocument is called again and
\* its loop starts at attempt 1 with a new request. The pages past
\* MaxPages are left out of delivered, filePaths, disk and the counts of
\* requests; the while (true) loop itself has no bound on them.
PageDeliveredBeyond ==
    /\ pc = "Downloading"
    /\ inflight.page > 0
    /\ delivered = MaxPages
    /\ isAdf(source)
    /\ \E reply \in {r \in PageReplies : httpGetBinaryOk(r)} :
        /\ lastReply' = reply
        /\ attempt' = 1
        /\ pageReqs' = 1
    /\ UNCHANGED <<offScan, deleteReply, colorMode, warmups, mode, source, jobId, pc, ret, err,
                   pageNum, filePaths, disk, delivered, inflight, issued>>

LiveNext ==
    \/ Next
    \/ PageDeliveredBeyond

\* Every request is answered or fails and every delay ends: a session that
\* can take a step takes one.
LiveSpec == Init /\ [][LiveNext]_vars /\ WF_vars(LiveNext)

\* ================================================= the protocol client
\* ESCLClient's functions (services/client.ts) called on their own: each
\* action is one call with its arguments and the device's answer drawn
\* from bounded sets.

\* Largest width and height in millimetres tried besides A4's.
MaxMm == 12
\* Largest number of elements in a capability document of mixed elements.
MaxElems == 3
\* Largest number of elements in a capability document of XResolution
\* elements only.
MaxResolutions == 4

\* An omitted optional argument (undefined).
Omitted == 0 - 1

\* width || 210: undefined and 0 both take the default.
orDefault(v, d) == IF v = Omitted \/ v = 0 THEN d ELSE v

\* A conversion that drops the fraction instead of rounding.
mmToUnitsTruncated(mm) == (3000 * mm) \div 254

\* Math.round(mm / 25.4 * 300): mm / 25.4 * 300 = 3000 mm / 254, and
\* Math.round(x) = floor(x + 1/2).
mmToUnits(mm) == (2 * 3000 * mm + 254) \div (2 * 254)

\* ESCLClient.buildScanSettings: the fields of the settings document that
\* depend on the arguments.
buildScanSettings(src, width, height) ==
    [InputSource |-> src,
     Width |-> mmToUnits(orDefault(width, 210)),
     Height |-> mmToUnits(orDefault(height, 297))]

\* The older client's createScanJob: every failure is logged and null is
\* returned.
createScanJobReturnsNull(src, reply, width, height) ==
    [kind |-> "return",
     jobId |-> IF httpPostOk(reply) THEN jobMatch(httpPostData(reply)) ELSE "",
     err |-> "",
     settings |-> buildScanSettings(src, width, height)]

\* A createScanJob that throws when the response holds no job id.
createScanJobThrowsOnNoId(src, reply, width, height) ==
    [kind |-> IF httpPostOk(reply) /\ jobMatch(httpPostData(reply)) # ""
              THEN "return" ELSE "throw",
     jobId |-> IF httpPostOk(reply) THEN jobMatch(httpPostData(reply)) ELSE "",
     err |-> IF httpPostOk(reply)
             THEN (IF jobMatch(httpPostData(reply)) # "" THEN "" ELSE "TRANSPORT")
             ELSE createScanJobError(httpPostError(reply), src),
     settings |-> buildScanSettings(src, width, height)]

\* ESCLClient.createScanJob: the settings posted and what the call returns
\* (jobId, "" for null) or throws (err).
createScanJob(src, reply, width, height) ==
    [kind |-> IF httpPostOk(reply) THEN "return" ELSE "throw",
     jobId |-> IF httpPostOk(reply) THEN jobMatch(httpPostData(reply)) ELSE "",
     err |-> IF httpPostOk(reply) THEN ""
             ELSE createScanJobError(httpPostError(reply), src),
     settings |-> buildScanSettings(src, width, height)]

\* -------------------------------------------- capability documents
\* A capability document is the sequence of the elements the parser's
\* patterns look at. XResolution: v is the number, discrete tells whether
\* the element sits in a DiscreteResolution. ColorMode, InputSource: v is
\* the word. Platen, Adf: the bare elements. DocumentFormat: v is the text.
XResValues == {200, 300, 600}
ColorModeWords == {"RGB24", "Grayscale8", "Sepia4"}
SourceWords == {"Platen", "Feeder", "Camera"}
FormatTexts == {"image/jpeg", " image/jpeg ", "application/pdf", " "}

XResolutionElements ==
    {[tag |-> "XResolution", v |-> x, discrete |-> d] : x \in XResValues, d \in BOOLEAN}

Elements ==
    XResolutionElements
      \cup {[tag |-> "ColorMode", v |-> w] : w \in ColorModeWords}
      \cup {[tag |-> "InputSource", v |-> w] : w \in SourceWords}
      \cup {[tag |-> "Platen"], [tag |-> "Adf"]}
      \cup {[tag |-> "DocumentFormat", v |-> t] : t \in FormatTexts}

RECURSIVE SeqsUpTo(_, _)
SeqsUpTo(S, n) ==
    IF n = 0 THEN {<<>>}
    ELSE LET shorter == SeqsUpTo(S, n - 1)
         IN  shorter \cup {Append(q, e) : q \in {r \in shorter : Len(r) = n - 1}, e \in S}

Docs == SeqsUpTo(Elements, MaxElems) \cup SeqsUpTo(XResolutionElements, MaxResolutions)

\* The captured texts of a pattern's matches, in document order.
Values(q) == [i \in 1..Len(q) |-> q[i].v]

Range(q) == {q[i] : i \in 1..Len(q)}

\* String.prototype.trim on the format texts.
trim(t) ==
    CASE t = " image/jpeg " -> "image/jpeg"
      [] t = " " -> ""
      [] OTHER -> t

\* Array.from(new Set(a)): the first occurrence of every value, in order.
RECURSIVE Unique(_)
Unique(q) ==
    IF q = <<>> THEN <<>>
    ELSE LET init == Unique(SubSeq(q, 1, Len(q) - 1))
             last == q[Len(q)]
         IN  IF last \in Range(init) THEN init ELSE Append(init, last)

\* An array left in the order of the document.
sortAscendingMissing(q) == q

\* a.sort((a, b) => a - b)
RECURSIVE sortAscending(_)
sortAscending(q) ==
    IF q = <<>> THEN <<>>
    ELSE LET rest == sortAscending(Tail(q))
             lo == SelectSeq(rest, LAMBDA x : x <= Head(q))
             hi == SelectSeq(rest, LAMBDA x : x > Head(q))
         IN  lo \o <<Head(q)>> \o hi

\* A check that lets every colour-mode word through.
knownColorModeAny(w) == w = w

\* ['BlackAndWhite1', 'Grayscale8', 'RGB24'].includes(mode)
knownColorMode(w) == w \in {"BlackAndWhite1", "Grayscale8", "RGB24"}

\* ['Platen', 'Adf', 'Feeder'].includes(source)
knownSource(w) == w \in {"Platen", "Adf", "Feeder"}

\* The resolutions collected before the duplicates are removed: the
\* XResolution of every DiscreteResolution, or, when there is none, every
\* XResolution not yet collected.
collectResolutions(doc) ==
    LET discreteRes == Values(SelectSeq(doc,
            LAMBDA e : e.tag = "XResolution" /\ e.discrete))
        xRes == Values(SelectSeq(doc, LAMBDA e : e.tag = "XResolution"))
    IN  IF Len(discreteRes) # 0 THEN discreteRes ELSE Unique(xRes)

collectColorModes(doc) ==
    SelectSeq(Values(SelectSeq(doc, LAMBDA e : e.tag = "ColorMode")), knownColorMode)

\* InputSource words, or the bare Platen and Adf elements when no
\* InputSource gave a source.
collectSources(doc) ==
    LET bySource == SelectSeq(Values(SelectSeq(doc, LAMBDA e : e.tag = "InputSource")),
                              knownSource)
        hasPlaten == \E i \in 1..Len(doc) : doc[i].tag = "Platen"
        hasAdf == \E i \in 1..Len(doc) : doc[i].tag = "Adf"
    IN  IF Len(bySource) # 0 THEN bySource
        ELSE (IF hasPlaten THEN <<"Platen">> ELSE <<>>)
                \o (IF hasAdf THEN <<"Adf">> ELSE <<>>)

collectFormats(doc) ==
    LET texts == Values(SelectSeq(doc, LAMBDA e : e.tag = "DocumentFormat"))
        trimmed == [i \in 1..Len(texts) |-> trim(texts[i])]
        found == Unique(SelectSeq(trimmed, LAMBDA t : t # ""))
    IN  IF Len(found) = 0 THEN <<"image/jpeg">> ELSE found

\* ESCLClient.parseCapabilities
parseCapabilities(doc) ==
    [resolutions |-> sortAscending(Unique(collectResolutions(doc))),
     colorModes |-> Unique(collectColorModes(doc)),
     sources |-> Unique(collectSources(doc)),
     documentFormats |-> Unique(collectFormats(doc))]

MmValues == {Omitted} \cup 0..MaxMm \cup {210, 297}

\* The scan session's variables before any session has started.
ScanIdle ==
    /\ pc = "Created"
    /\ mode = "color"
    /\ source = "Platen"
    /\ jobId = ""
    /\ pageNum = 0
    /\ attempt = 0
    /\ filePaths = <<>>
    /\ disk = {}
    /\ ret = "pending"
    /\ err = ""
    /\ inflight = [create |-> 0, page |-> 0, delete |-> 0]
    /\ issued = [create |-> 0, page |-> 0, delete |-> 0]
    /\ delivered = 0
    /\ lastReply = NoReply
    /\ deleteReply = NoDelete
    /\ pageReqs = 0
    /\ colorMode = ""
    /\ warmups = 0

\* What a call of a client function leaves alone.
offClient == <<vars, dvars>>

ClientInit == ClientIdle /\ ScanIdle /\ DiscIdle

CallBuildScanSettings ==
    /\ call = NoCall
    /\ \E src \in Sources, w \in MmValues, h \in MmValues :
        /\ call' = [fn |-> "buildScanSettings", source |-> src, width |-> w, height |-> h]
        /\ out' = buildScanSettings(src, w, h)
        /\ UNCHANGED offClient

CallCreateScanJob ==
    /\ call = NoCall
    /\ \E src \in Sources, reply \in CreateReplies, w \in {Omitted, 210}, h \in {Omitted, 297} :
        /\ call' = [fn |-> "createScanJob", source |-> src, reply |-> reply,
                    width |-> w, height |-> h]
        /\ out' = createScanJob(src, reply, w, h)
        /\ UNCHANGED offClient

CallParseCapabilities ==
    /\ call = NoCall
    /\ \E doc \in Docs :
        /\ call' = [fn |-> "parseCapabilities", doc |-> doc]
        /\ out' = parseCapabilities(doc)
        /\ UNCHANGED offClient

\* ------------------------------------------------- the client's queries
\* ESCLClient.httpGet and httpGetBinary: resolve on 200, reject otherwise.
httpGetOk(reply) == reply.kind = "http" /\ reply.status = 200

NoCapabilities == [resolutions |-> <<>>, colorModes |-> <<>>, sources |-> <<>>,
                   documentFormats |-> <<>>]

\* A getCapabilities without its catch.
getCapabilitiesRethrows(reply, doc) ==
    IF httpGetOk(reply)
    THEN [kind |-> "return", null |-> FALSE, value |-> parseCapabilities(doc)]
    ELSE [kind |-> "throw", null |-> FALSE, value |-> NoCapabilities]

\* ESCLClient.getCapabilities: the parsed document, or null from the catch.
getCapabilities(reply, doc) ==
    IF httpGetOk(reply)
    THEN [kind |-> "return", null |-> FALSE, value |-> parseCapabilities(doc)]
    ELSE [kind |-> "return", null |-> TRUE, value |-> NoCapabilities]

\* A status document: the text of its JobState element, "" when it has none
\* the pattern matches, and its DocumentURI texts.
JobStateTexts == {"Processing", "Completed", "Aborted", "Pending", "Canceled", ""}
ImageLists == {<<>>, <<"/eSCL/ScanJobs/a1/1">>,
               <<"/eSCL/ScanJobs/a1/1", "/eSCL/ScanJobs/a1/2">>}
StatusDocs == [state : JobStateTexts, uris : ImageLists]
NoStatusDoc == [state |-> "", uris |-> <<>>]

\* response.match(/<JobState>(\w+)<\/JobState>/)?.[1] || 'Unknown'
jobState(doc) == IF doc.state = "" THEN "Unknown" ELSE doc.state

\* ESCLClient.getScanJobStatus
getScanJobStatus(reply, doc) ==
    IF httpGetOk(reply)
    THEN [kind |-> "return", status |-> jobState(doc), images |-> doc.uris]
    ELSE [kind |-> "return", status |-> "Unknown", images |-> <<>>]

\* ESCLClient.downloadImage: the buffer, or null from the catch.
downloadImage(reply) ==
    [kind |-> "return", null |-> ~httpGetOk(reply)]

\* The document a reply carries: a failed request has none to read.
docsOf(reply, docs, none) == IF httpGetOk(reply) THEN docs ELSE {none}

CallGetCapabilities ==
    /\ call = NoCall
    /\ \E reply \in PageReplies :
        \E doc \in docsOf(reply, Docs, <<>>) :
            /\ call' = [fn |-> "getCapabilities", reply |-> reply, doc |-> doc]
            /\ out' = getCapabilities(reply, doc)
            /\ UNCHANGED offClient

CallGetScanJobStatus ==
    /\ call = NoCall
    /\ \E reply \in PageReplies :
        \E doc \in docsOf(reply, StatusDocs, NoStatusDoc) :
            /\ call' = [fn |-> "getScanJobStatus", reply |-> reply, doc |-> doc]
            /\ out' = getScanJobStatus(reply, doc)
            /\ UNCHANGED offClient

CallDownloadImage ==
    /\ call = NoCall
    /\ \E reply \in PageReplies :
        /\ call' = [fn |-> "downloadImage", reply |-> reply]
        /\ out' = downloadImage(reply)
        /\ UNCHANGED offClient

ClientNext ==
    \/ CallBuildScanSettings
    \/ CallCreateScanJob
    \/ CallParseCapabilities
    \/ CallGetCapabilities
    \/ CallGetScanJobStatus
    \/ CallDownloadImage

ClientSpec == ClientInit /\ [][ClientNext]_<<cvars, vars, dvars>>

\* ------------------------------------------------------------ discovery
\* ESCLDiscovery (services/discovery.ts): one instance, its startDiscovery
\* calls made one after the other, the helpers it spawns and the timers it
\* arms. Timers are untimed: a timer that is armed may fire at any moment.

\* The scanners a helper can report: two records with the same service name,
\* as when the scanner "a" is announced on two addresses.
Devices == {[name |-> "a", host |-> "h1"], [name |-> "a", host |-> "h2"]}

Names == {d.name : d \in Devices}

\* The scanner lists of a success line.
ScannerLists == SeqsUpTo(Devices, MaxScanners)

\* The lines of a helper's output: blank, not JSON, an error response, or a
\* success response with its scanners.
Lines ==
    {[kind |-> "blank"], [kind |-> "malformed"], [kind |-> "error"]}
        \cup {[kind |-> "success", scanners |-> q] : q \in ScannerLists}

\* A line that reaches the handler in two data events, cut inside its text.
\* The handler keeps nothing between two events: each event's text is split
\* and every piece goes to JSON.parse by itself, and neither a proper prefix
\* nor a proper suffix of a JSON object is JSON.
cut(l) == <<[kind |-> "malformed"], [kind |-> "malformed"]>>

Envs == [pythonPathGiven : BOOLEAN, binaryExists : BOOLEAN, pythonPathFound : BOOLEAN]

\* constructor: an explicit pythonPath rules the binary out.
binaryPath == ~env.pythonPathGiven /\ env.binaryExists

\* A validation that is satisfied by the binary on disk, selected or not.
validatePythonPathAnyBinary == env.binaryExists \/ env.pythonPathFound

\* validatePythonPath returns without throwing.
validatePythonPath == binaryPath \/ env.pythonPathFound

\* Map.prototype.set: a key already present keeps its place.
\* A registry that appends every scanner, whatever its name.
mapSetAppends(m, d) == Append(m, d)

mapSet(m, d) ==
    IF \E i \in 1..Len(m) : m[i].name = d.name
    THEN [i \in 1..Len(m) |-> IF m[i].name = d.name THEN d ELSE m[i]]
    ELSE Append(m, d)

\* discovered.clear() followed by discovered.set(scanner.name, scanner) for
\* every scanner of the response.
RECURSIVE setAll(_)
setAll(q) ==
    IF q = <<>> THEN <<>>
    ELSE mapSet(setAll(SubSeq(q, 1, Len(q) - 1)), q[Len(q)])

\* cleanup: the helper the handle points at is sent exit and a kill timer is
\* armed; nothing happens when the handle is null.
cleanupProcs ==
    IF pythonProcess # 0
    THEN [procs EXCEPT ![pythonProcess].exitSent = TRUE]
    ELSE procs

cleanupTimers == IF pythonProcess # 0 THEN killTimers + 1 ELSE killTimers

\* The first success line received while the promise of the latest call is
\* pending, whether or not the handler's loop reaches it.
noteSuccess(l) ==
    IF l.kind = "success" /\ promise.state = "pending" /\ firstSuccess = NoLine
    THEN l ELSE firstSuccess

\* A registry that keeps what it held when a call begins.
discoveredKept == discovered

\* this.discovered.clear() at the beginning of a call.
discoveredCleared == <<>>

DiscInit ==
    /\ \E e \in Envs : DiscIdleWith(e)
    /\ ScanIdle
    /\ ClientIdle

\* What the discovery instance leaves alone.
offDisc == <<vars, cvars>>

\* What child_process.spawn does: it returns a running helper; it throws
\* (an error it reports synchronously); or it returns a ChildProcess without
\* a process and emits 'error' on it on the next tick (EACCES, ENOENT).
SpawnOutcomes == {"ok", "throws", "error"}

stAfterSpawn(outcome) ==
    CASE outcome = "ok" -> "alive"
      [] outcome = "throws" -> "threw"
      [] outcome = "error" -> "errored"

\* No listener is registered for 'error' on the ChildProcess: the event is
\* thrown as an uncaught exception, which ends the Node process.
crashed == \E p \in 1..MaxAttempts : procs[p].st = "errored"

\* startDiscovery, called when the promise of the call before has settled.
StartDiscovery ==
    /\ ~crashed
    /\ started < MaxAttempts
    /\ promise.state # "pending"
    /\ chunk = "none"
    /\ started' = started + 1
    /\ settles' = IF validatePythonPath THEN 0 ELSE 1
    /\ firstSuccess' = NoLine
    /\ IF ~validatePythonPath
       THEN /\ promise' = [state |-> "rejected", success |-> FALSE, data |-> <<>>,
                           by |-> "validation"]
            /\ UNCHANGED <<pythonProcess, discovered, listeners, procs, timeoutHandle>>
       ELSE /\ promise' = [state |-> "pending", success |-> FALSE, data |-> <<>>, by |-> ""]
            /\ discovered' = discoveredCleared
            /\ timeoutHandle' = started'
            /\ listeners' = listeners \cup {started'}
            /\ \E outcome \in SpawnOutcomes :
                 LET spawns == pythonProcess = 0
                     handle == IF ~spawns THEN pythonProcess
                               ELSE IF outcome = "throws" THEN 0 ELSE started'
                     spawned == IF spawns
                                THEN [procs EXCEPT ![started'] =
                                        [NoProc EXCEPT !.st = stAfterSpawn(outcome),
                                            !.backend = IF binaryPath THEN "binary" ELSE "script"]]
                                ELSE procs
                 IN  /\ pythonProcess' = handle
                     /\ procs' = IF handle # 0
                                 THEN [spawned EXCEPT ![handle].listSent = TRUE]
                                 ELSE spawned
    /\ UNCHANGED <<env, killTimers, resolved, chunk, offDisc>>

\* The interpreter is installed or removed between two calls: what
\* validatePythonPath finds is looked up at every call.
PythonPathChange ==
    /\ ~crashed
    /\ chunk = "none"
    /\ env' = [env EXCEPT !.pythonPathFound = ~env.pythonPathFound]
    /\ UNCHANGED <<pythonProcess, discovered, listeners, procs, killTimers, started,
                   resolved, timeoutHandle, promise, settles, chunk, firstSuccess, offDisc>>

\* The discovery timer of the pending call fires.
DiscoveryTimeout ==
    /\ ~crashed
    /\ timeoutHandle # 0
    /\ chunk = "none"
    /\ timeoutHandle' = 0
    /\ IF timeoutHandle \notin resolved
       THEN /\ resolved' = resolved \cup {timeoutHandle}
            /\ procs' = cleanupProcs
            /\ killTimers' = cleanupTimers
            /\ promise' = [state |-> "resolved", success |-> TRUE, data |-> discovered,
                           by |-> "timeout"]
            /\ settles' = settles + 1
       ELSE UNCHANGED <<resolved, procs, killTimers, promise, settles>>
    /\ UNCHANGED <<env, pythonProcess, discovered, listeners, started, chunk,
                   firstSuccess, offDisc>>

\* One of cleanup's 1000 ms timers fires.
KillTimer ==
    /\ ~crashed
    /\ killTimers > 0
    /\ chunk = "none"
    /\ killTimers' = killTimers - 1
    /\ IF pythonProcess # 0
       THEN /\ procs' = [procs EXCEPT ![pythonProcess].killed = TRUE]
            /\ pythonProcess' = 0
       ELSE UNCHANGED <<procs, pythonProcess>>
    /\ UNCHANGED <<env, discovered, listeners, started, resolved, timeoutHandle, promise,
                   settles, chunk, firstSuccess, offDisc>>

\* A helper exits, of its own accord, on the exit command or killed, and its
\* exit handler runs.
ProcessExit ==
    /\ ~crashed
    /\ chunk = "none"
    /\ \E p \in 1..MaxAttempts :
        /\ procs[p].st = "alive"
        /\ procs' = [procs EXCEPT ![p] = Exited]
        /\ pythonProcess' = 0
    /\ UNCHANGED <<env, discovered, listeners, killTimers, started, resolved, timeoutHandle,
                   promise, settles, chunk, firstSuccess, offDisc>>

\* A helper's stdout emits data: the handler splits it and enters its loop.
StdoutData ==
    /\ ~crashed
    /\ chunk = "none"
    /\ \E p \in 1..MaxAttempts : procs[p].st = "alive"
    /\ chunk' = "loop"
    /\ UNCHANGED <<env, pythonProcess, discovered, listeners, procs, killTimers, started,
                   resolved, timeoutHandle, promise, settles, firstSuccess, offDisc>>

\* The line reaches the success branch of the handler's loop.
isProcessed(l) == chunk = "loop" /\ l.kind = "success"

\* The registry after the handler has dealt with the line: discovered.clear()
\* and a set per scanner in the success branch.
discoveredAfter(l) == IF isProcessed(l) THEN setAll(l.scanners) ELSE discovered

\* notifyListeners reaches the responseHandler of a call not yet resolved.
isResolvedBy(l) == isProcessed(l) /\ \E c \in listeners : c \notin resolved

\* The next line of the data. Inside the loop a blank line is skipped, an
\* error response is logged, a success response replaces the registry and
\* notifies the listeners, whose responseHandler resolves a call not yet
\* resolved with the scanners, unregisters and cleans up; a line that is not
\* JSON makes JSON.parse throw out of the loop, and the lines after it are
\* not looked at.
DataLine ==
    /\ ~crashed
    /\ chunk # "none"
    /\ \E l \in Lines :
        /\ firstSuccess' = noteSuccess(l)
        /\ discovered' = discoveredAfter(l)
        /\ chunk' = IF chunk = "loop" /\ l.kind = "malformed" THEN "caught" ELSE chunk
        /\ IF isResolvedBy(l)
           THEN LET c == CHOOSE c \in listeners : c \notin resolved
                IN  /\ resolved' = resolved \cup {c}
                    /\ timeoutHandle' = IF timeoutHandle = c THEN 0 ELSE timeoutHandle
                    /\ listeners' = listeners \ {c}
                    /\ procs' = cleanupProcs
                    /\ killTimers' = cleanupTimers
                    /\ promise' = [state |-> "resolved", success |-> TRUE,
                                   data |-> discovered', by |-> "message"]
                    /\ settles' = settles + 1
           ELSE UNCHANGED <<resolved, timeoutHandle, listeners, procs, killTimers, promise,
                            settles>>
    /\ UNCHANGED <<env, pythonProcess, started, offDisc>>

\* The data has no more lines: the handler returns.
StdoutDataEnd ==
    /\ ~crashed
    /\ chunk # "none"
    /\ chunk' = "none"
    /\ UNCHANGED <<env, pythonProcess, discovered, listeners, procs, killTimers, started,
                   resolved, timeoutHandle, promise, settles, firstSuccess, offDisc>>

DiscNext ==
    \/ StartDiscovery
    \/ PythonPathChange
    \/ DiscoveryTimeout
    \/ KillTimer
    \/ ProcessExit
    \/ StdoutData
    \/ DataLine
    \/ StdoutDataEnd

DiscSpec == DiscInit /\ [][DiscNext]_<<dvars, vars, cvars>>

\* ------------------------------------------------------------ properties
Ended == pc \in {"Done", "Aborted"}

Is(reply, st) == reply.kind = "http" /\ reply.status = st

\* The files a session that saved n pages leaves: page i holds the i-th
\* document the device delivered.
FilesOf(n) == {[path |-> saveImage(i), data |-> i] : i \in 1..n}

\* C1: in every session in which job creation succeeded, exactly one DELETE
\* of the job has been issued when the session ends, whether it ends by
\* returning or by raising an error.
C1_DeleteOnceOnEveryExit ==
    (Ended /\ jobId # "") => issued.delete = 1

\* C2: with source Platen at most one page is persisted: once the first
\* page has been delivered the loop is left, no NextDocument request is
\* outstanding and the device is never asked for a second page.
C2_PlatenSinglePage ==
    source = "Platen" =>
        /\ delivered <= 1
        /\ Len(filePaths) <= 1
        /\ Cardinality(disk) <= 1
        /\ delivered = 1 =>
              /\ pc \in {"Cleanup", "Done"}
              /\ inflight.page = 0
              /\ issued.page = pageReqs
              /\ filePaths = <<saveImage(1)>>

C2_Witness ==
    source = "Platen" /\ pc = "Done" /\ Len(filePaths) = 1 /\ delivered < MaxPages

\* C3: with source Feeder, when the device has delivered N >= 1 pages and
\* then answers 404, exactly N files are on disk, the N paths are kept in
\* retrieval order, and the session ends by returning them, not by an error.
C3_FeederPagesThen404 ==
    (source = "Feeder" /\ delivered >= 1 /\ Is(lastReply, 404)) =>
        /\ pc \in {"Cleanup", "Done"}
        /\ err = ""
        /\ Len(filePaths) = delivered
        /\ \A i \in 1..delivered : filePaths[i] = saveImage(i)
        /\ disk = FilesOf(delivered)
        /\ Cardinality(disk) = delivered
        /\ pc = "Done" => ret = "paths"

C3_Witness ==
    /\ source = "Feeder"
    /\ delivered = 3
    /\ Is(lastReply, 404)
    /\ pc = "Done"
    /\ ret = "paths"

\* C4: with source Adf the loop goes on as for Feeder: it is left for the
\* cleanup only after a request that did not deliver a page, never right
\* after a delivered page.
C4_AdfContinuesAfterPage ==
    (source = "Adf" /\ pc \in {"Cleanup", "Done"}) => ~Is(lastReply, 200)

\* C5 (as claimed): with source Feeder a 404 answer to a NextDocument
\* request never raises an error, the first page included.
C5_Feeder404NeverRaises ==
    (source = "Feeder" /\ Is(lastReply, 404)) => (pc # "Aborted" /\ err = "")

\* C5 (amended): with source Feeder a 404 answer to a NextDocument request
\* ends the session as normal completion when at least one page has been
\* saved, and raises the download failure when it answers the first page.
C5_Feeder404AfterFirstPage ==
    (source = "Feeder" /\ Is(lastReply, 404)) =>
        IF delivered >= 1
          THEN pc \in {"Cleanup", "Done"} /\ err = "" /\ ret # "throw"
          ELSE pc = "Aborted" /\ err = "DOWNLOAD_FAILED" /\ ret = "throw"

C5_Witness ==
    /\ source = "Feeder"
    /\ Is(lastReply, 404)
    /\ pc = "Done"
    /\ delivered = 1
    /\ pageReqs = 1

\* C6: while one page is retrieved every 409 answer starts the retry delay,
\* after which the same page is requested again; no page gets more than 30
\* requests, and when the 30th is answered 409 too the session raises
\* SCANNER_BUSY and returns nothing.
C6_BusyRetryBound ==
    /\ [](/\ pageReqs <= 30
          /\ pc = "RetryDelay" => Is(lastReply, 409)
          /\ err = "SCANNER_BUSY" /\ issued.page > 0 =>
                /\ pc = "Aborted"
                /\ ret = "throw"
                /\ pageReqs = 30
                /\ Is(lastReply, 409))
    /\ [][/\ (pc = "Downloading" /\ Is(lastReply', 409) /\ inflight'.page < inflight.page)
                => (pc' = "RetryDelay" /\ pageNum' = pageNum /\ issued' = issued)
          /\ (pc = "RetryDelay" /\ pageReqs < 30)
                => /\ pc' = "Downloading"
                   /\ pageNum' = pageNum
                   /\ pageReqs' = pageReqs + 1
                   /\ issued'.page = issued.page + 1
          /\ (pc = "RetryDelay" /\ pageReqs = 30)
                => (pc' = "Aborted" /\ err' = "SCANNER_BUSY" /\ issued' = issued)
         ]_vars

C6_Witness ==
    /\ pc = "Aborted"
    /\ err = "SCANNER_BUSY"
    /\ pageReqs = 30
    /\ pageNum = 2

\* C7: with source Feeder a 500 answer to a NextDocument request raises
\* ADF_NO_DOCUMENT on any page; the session does not go on to the cleanup
\* as it does at the end of the pages.
C7_Feeder500NoDocument ==
    (source = "Feeder" /\ Is(lastReply, 500)) =>
        /\ pc = "Aborted"
        /\ ret = "throw"
        /\ err = "ADF_NO_DOCUMENT"
        /\ issued.delete = 0

C7_Witness ==
    /\ source = "Feeder"
    /\ Is(lastReply, 500)
    /\ err = "ADF_NO_DOCUMENT"
    /\ delivered = 2

\* A failed page request that is none of 404, 409 and (500 with Feeder).
OtherFailure(reply, src) ==
    \/ reply.kind \in {"timeout", "neterr"}
    \/ /\ reply.kind = "http"
       /\ reply.status \notin {200, 404, 409}
       /\ ~(reply.status = 500 /\ src = "Feeder")

\* C8: a page request that fails with another status, a timeout or a
\* connection error ends the session successfully with the pages saved so
\* far when at least one page was retrieved, and raises an error when it is
\* the first page that fails.
C8_OtherFailure ==
    OtherFailure(lastReply, source) =>
        IF delivered >= 1
          THEN /\ pc \in {"Cleanup", "Done"}
               /\ err = ""
               /\ Len(filePaths) = delivered
               /\ disk = FilesOf(delivered)
               /\ pc = "Done" => ret = "paths"
          ELSE /\ pc = "Aborted"
               /\ ret = "throw"
               /\ err = "DOWNLOAD_FAILED"
               /\ disk = {}

C8_Witness ==
    /\ lastReply.kind = "timeout"
    /\ delivered = 2
    /\ pc = "Done"
    /\ ret = "paths"

\* C9: the creation request is answered before any NextDocument request is
\* issued, every NextDocument request is answered before the DELETE is
\* issued, and no NextDocument request is issued after the DELETE.
C9_CreateThenPagesThenDelete ==
    /\ [](/\ issued.page > 0 => (inflight.create = 0 /\ issued.create = 1 /\ jobId # "")
          /\ issued.delete > 0 => (inflight.page = 0 /\ inflight.create = 0))
    /\ [][/\ issued'.page > issued.page =>
                (issued.delete = 0 /\ inflight.create = 0 /\ jobId # "")
          /\ issued'.delete > issued.delete =>
                (inflight'.page = 0 /\ issued.page > 0)
          /\ issued.delete > 0 => issued'.page = issued.page
         ]_vars

C9_Witness ==
    /\ pc = "Cleanup"
    /\ inflight.delete = 1
    /\ issued.page >= 2
    /\ issued.create = 1

\* C10: at most one NextDocument request is outstanding at any time: a
\* request, first try or retry, goes out only when none is outstanding.
C10_OnePageRequestInFlight ==
    /\ [](inflight.page <= 1)
    /\ [][issued'.page > issued.page =>
            (inflight'.page = 1 /\ issued'.page = issued.page + 1)]_vars

C10_Witness ==
    /\ pc = "Downloading"
    /\ inflight.page = 1
    /\ pageReqs >= 2
    /\ pageNum >= 2

\* C11: a session whose job creation succeeded starts the warm-up delay
\* exactly once and has finished it before the first NextDocument request
\* goes out; a session whose creation failed never starts it.
C11_WarmupOnceBeforeFirstPage ==
    /\ [](/\ warmups <= 1
          /\ warmups = 1 <=> jobId # ""
          /\ pc = "Warmup" => (warmups = 1 /\ issued.page = 0)
          /\ issued.page > 0 => (warmups = 1 /\ pc # "Warmup")
          /\ (pc = "Aborted" /\ jobId = "") => (warmups = 0 /\ issued.page = 0))
    /\ [][/\ (issued.page = 0 /\ issued'.page > 0) => (pc = "Warmup" /\ pc' # "Warmup")
          /\ warmups' > warmups => (pc = "JobRequested" /\ pc' = "Warmup")
         ]_vars

C11_Witness ==
    /\ warmups = 1
    /\ pc = "Downloading"
    /\ issued.page = 1
    /\ inflight.page = 1

C13_CreateFailureClassified ==
    (call.fn = "createScanJob"
        /\ ~(call.reply.kind = "http" /\ call.reply.status \in {200, 201})) =>
        /\ out.kind = "throw"
        /\ out.jobId = ""
        /\ out.err =
             (IF call.reply.kind # "http" THEN "TRANSPORT"
              ELSE IF call.reply.status = 409 THEN "SCANNER_BUSY"
              ELSE IF call.reply.status = 500 /\ call.source = "Feeder" THEN "ADF_NO_DOCUMENT"
              ELSE IF call.reply.status = 503 THEN "SCANNER_UNAVAILABLE"
              ELSE "TRANSPORT")

C13_Witness ==
    /\ call.fn = "createScanJob"
    /\ call.source = "Platen"
    /\ call.reply.kind = "http"
    /\ call.reply.status = 500
    /\ out.kind = "throw"
    /\ out.err = "TRANSPORT"

\* The millimetres a region dimension is computed from.
EffectiveMm(v, d) == IF v \in {Omitted, 0} THEN d ELSE v

\* u is mm / 25.4 * 300 rounded to the nearest integer: |u - 3000 mm / 254|
\* is at most 1/2.
IsRounded(u, mm) ==
    /\ 2 * (254 * u - 3000 * mm) <= 254
    /\ 2 * (3000 * mm - 254 * u) <= 254

ResolutionsNamed(doc) ==
    LET discrete == {doc[i].v : i \in {j \in 1..Len(doc) :
                        doc[j].tag = "XResolution" /\ doc[j].discrete}}
        all == {doc[i].v : i \in {j \in 1..Len(doc) : doc[j].tag = "XResolution"}}
    IN  IF discrete # {} THEN discrete ELSE all

\* C15: for every capability document the parsed resolutions are strictly
\* ascending, hence without duplicates, and are the resolutions the
\* document names, in whatever order and however often it names them;
\* 600, 200, 600, 300 gives [200, 300, 600].
C15_ResolutionsAscending ==
    call.fn = "parseCapabilities" =>
        /\ \A i, j \in 1..Len(out.resolutions) :
              i < j => out.resolutions[i] < out.resolutions[j]
        /\ Range(out.resolutions) = ResolutionsNamed(call.doc)
        /\ (\E d \in BOOLEAN :
              call.doc = [i \in 1..4 |->
                  [tag |-> "XResolution", v |-> <<600, 200, 600, 300>>[i], discrete |-> d]])
            => out.resolutions = <<200, 300, 600>>

C15_Witness ==
    /\ call.fn = "parseCapabilities"
    /\ Len(call.doc) = 4
    /\ \A i \in 1..4 : call.doc[i].tag = "XResolution" /\ call.doc[i].discrete
    /\ [i \in 1..4 |-> call.doc[i].v] = <<600, 200, 600, 300>>
    /\ out.resolutions = <<200, 300, 600>>

NoDuplicates(q) == \A i, j \in 1..Len(q) : i # j => q[i] # q[j]

\* The document has a DocumentFormat element whose text is not blank.
NamesFormat(doc) ==
    \E i \in 1..Len(doc) :
        doc[i].tag = "DocumentFormat" /\ doc[i].v \notin {"", " "}

\* C16: in every parsed Capabilities value colorModes, sources and
\* documentFormats have no duplicates, colorModes and sources hold
\* recognised values only, and documentFormats is never empty: it is
\* ["image/jpeg"] when the document names no format.
C16_CapabilityLists ==
    call.fn = "parseCapabilities" =>
        /\ NoDuplicates(out.colorModes)
        /\ NoDuplicates(out.sources)
        /\ NoDuplicates(out.documentFormats)
        /\ Range(out.colorModes) \subseteq {"BlackAndWhite1", "Grayscale8", "RGB24"}
        /\ Range(out.sources) \subseteq {"Platen", "Adf", "Feeder"}
        /\ Len(out.documentFormats) >= 1
        /\ ~NamesFormat(call.doc) => out.documentFormats = <<"image/jpeg">>

C16_Witness ==
    /\ call.fn = "parseCapabilities"
    /\ Len(call.doc) = 3
    /\ call.doc[1] = [tag |-> "ColorMode", v |-> "RGB24"]
    /\ call.doc[2] = [tag |-> "ColorMode", v |-> "Sepia4"]
    /\ call.doc[3] = [tag |-> "ColorMode", v |-> "RGB24"]
    /\ out.colorModes = <<"RGB24">>
    /\ out.documentFormats = <<"image/jpeg">>

\* C17: a call whose discovery timer fires before any success line has come
\* in resolves with success = true and no devices; a call that passed the
\* validation is never rejected.
C17_TimeoutWithoutSuccess ==
    /\ []((promise.state = "resolved" /\ promise.by = "timeout" /\ firstSuccess = NoLine)
            => (promise.success /\ promise.data = <<>>))
    /\ [][(started' # started /\ promise'.state = "rejected") => ~validatePythonPath]_dvars
    /\ [](promise.state = "rejected" => settles = 1)
    /\ [][(timeoutHandle # 0 /\ timeoutHandle' = 0
                /\ firstSuccess = NoLine /\ firstSuccess' = NoLine)
            => promise' = [state |-> "resolved", success |-> TRUE, data |-> <<>>,
                           by |-> "timeout"]
         ]_dvars

C17_Witness ==
    /\ started = 2
    /\ promise.state = "resolved"
    /\ promise.by = "timeout"
    /\ promise.data = <<>>
    /\ firstSuccess = NoLine
    /\ procs[2].st = "alive"
    /\ procs[2].listSent

\* The device set a scanner list carries, keyed by name: of the entries with
\* one name the last.
LastByName(q) ==
    {q[i] : i \in {k \in 1..Len(q) : \A j \in (k + 1)..Len(q) : q[j].name # q[k].name}}

\* The array holds exactly the devices of the set, each once.
Holds(q, S) == Range(q) = S /\ Len(q) = Cardinality(S)

\* C18: a call that passed the validation settles once; it is resolved as
\* soon as a success line has come in, with the scanners of the first such
\* line, or by the timer when none has; once resolved, its result stays.
C18_ResolvesOnFirstSuccess ==
    /\ [](/\ settles <= 1
          /\ promise.state = "pending" => firstSuccess = NoLine
          /\ (promise.state = "resolved" /\ promise.by = "message")
                => (/\ firstSuccess # NoLine
                    /\ Holds(promise.data, LastByName(firstSuccess.scanners)))
          /\ (promise.state = "resolved" /\ promise.by = "timeout")
                => firstSuccess = NoLine)
    /\ [][(promise.state = "resolved" /\ started' = started) => promise' = promise]_dvars

\* C19: whenever the data handler is running, a success line at its input
\* leaves the registry holding exactly the scanners of the line, and an
\* error line leaves the registry as it is and resolves nothing.
C19_SuccessReplacesRegistry ==
    chunk # "none" =>
        \A l \in Lines :
            /\ l.kind = "success" => Holds(discoveredAfter(l), LastByName(l.scanners))
            /\ l.kind = "error" => (discoveredAfter(l) = discovered /\ ~isResolvedBy(l))

\* C20: once the latest call has settled and every kill timer has fired, no
\* helper spawned by the instance is left running unkilled without the
\* process handle referring to it.
C20_NoLeakedHelper ==
    (killTimers = 0 /\ promise.state # "pending" /\ chunk = "none") =>
        \A p \in 1..MaxAttempts :
            (procs[p].st = "alive" /\ ~procs[p].killed) => pythonProcess = p

\* C21: a line that is not JSON is skipped on its own: wherever the data
\* handler stands in a chunk, a success line at its input reaches the
\* success branch, and resolves the call when one is pending.
C21_MalformedSkippedAlone ==
    chunk # "none" =>
        \A l \in Lines :
            l.kind = "success" =>
                /\ isProcessed(l)
                /\ promise.state = "pending" => isResolvedBy(l)

\* The spawn made by call p failed.
SpawnFailed(p) == procs[p].st \in {"threw", "errored"}

\* C22: when the spawn of a call fails, nothing crashes, no list command is
\* written, the call is not rejected and resolves at the timeout with no
\* devices, and every later call on the instance spawns no helper and
\* reports no devices.
C22_SpawnFailureDisables ==
    \A p \in 1..MaxAttempts :
        SpawnFailed(p) =>
            /\ ~crashed
            /\ ~procs[p].listSent
            /\ promise.state # "rejected"
            /\ promise.state = "resolved" => promise.data = <<>>
            /\ (p = started /\ promise.state = "resolved") => promise.by = "timeout"
            /\ \A q \in 1..MaxAttempts : q > p => procs[q].st \in {"unborn", "threw"}

\* C23: every helper the instance spawns is the prebuilt binary when the
\* binary exists on disk, with or without an explicit interpreter path, and
\* the Python script only when it does not exist.
C23_BinaryPreferred ==
    \A p \in 1..MaxAttempts :
        procs[p].backend # "" =>
            (procs[p].backend = "binary" <=> env.binaryExists)

C25_QueriesNeverThrow ==
    call.fn \in {"getCapabilities", "getScanJobStatus", "downloadImage"} =>
        /\ out.kind = "return"
        /\ ~(call.reply.kind = "http" /\ call.reply.status = 200) =>
              CASE call.fn = "getCapabilities" -> out.null
                [] call.fn = "getScanJobStatus" -> out.status = "Unknown" /\ out.images = <<>>
                [] call.fn = "downloadImage" -> out.null

C25_Witness ==
    /\ call.fn = "getCapabilities"
    /\ call.reply.kind = "http"
    /\ call.reply.status = 503
    /\ out.kind = "return"
    /\ out.null

\* C26: the state getScanJobStatus returns is Processing, Completed, Aborted
\* or Unknown, and it is Unknown for every state text other than the first
\* three.
C26_JobStateKnown ==
    call.fn = "getScanJobStatus" =>
        /\ out.status \in {"Processing", "Completed", "Aborted", "Unknown"}
        /\ call.doc.state \notin {"Processing", "Completed", "Aborted"}
              => out.status = "Unknown"

\* C27: the outcome of the job DELETE never changes the session's outcome.
\* Whatever the DELETE's answer (200, an error status, a timeout, a
\* connection error), the step that receives it ends the session in Done
\* with the result fixed before the answer: the saved paths when there are
\* any, null otherwise; no error is raised and paths and files are
\* untouched.
C27_DeleteNeverChangesOutcome ==
    /\ [][pc = "Cleanup" /\ pc' # "Cleanup" =>
            /\ pc' = "Done"
            /\ ret' = IF Len(filePaths) > 0 THEN "paths" ELSE "null"
            /\ <<err, filePaths, disk>>' = <<err, filePaths, disk>>]_vars
    /\ [](deleteReply # NoDelete => (pc = "Done" /\ err = "" /\ ret # "throw"))

C27_Witness ==
    /\ pc = "Done"
    /\ deleteReply.kind = "timeout"
    /\ ret = "paths"
    /\ Len(filePaths) = 2

\* The phase of the session: the wait between two attempts for one page
\* belongs to Downloading.
Phase(p) == IF p = "RetryDelay" THEN "Downloading" ELSE p

Rank(p) ==
    CASE Phase(p) = "Created" -> 1
      [] Phase(p) = "JobRequested" -> 2
      [] Phase(p) = "Warmup" -> 3
      [] Phase(p) = "Downloading" -> 4
      [] Phase(p) = "Cleanup" -> 5
      [] Phase(p) = "Done" -> 6
      [] Phase(p) = "Aborted" -> 6

ForwardOnly ==
    /\ Rank(pc') >= Rank(pc)
    /\ pc \in {"Done", "Aborted"} => pc' = pc

\* C28 (as stated): a session moves only forward through Created,
\* JobRequested, Warmup, Downloading, Cleanup, Done; Done and Aborted are
\* terminal; Aborted is entered only from JobRequested or Downloading.
C28_AbortedOnlyAfterRequest ==
    [][/\ ForwardOnly
       /\ (pc' = "Aborted" /\ pc # "Aborted") =>
              Phase(pc) \in {"JobRequested", "Downloading"}]_vars

\* C28 (amended): a session moves only forward through the phases, Done and
\* Aborted are terminal, and Aborted is entered from JobRequested or
\* Downloading, or from Created when the mode is not one of bw, gray and
\* color, before any request is issued.
C28_ForwardPhases ==
    [][/\ ForwardOnly
       /\ (pc' = "Aborted" /\ pc # "Aborted") =>
              \/ Phase(pc) \in {"JobRequested", "Downloading"}
              \/ /\ pc = "Created"
                 /\ mode \notin {"bw", "gray", "color"}
                 /\ issued' = [create |-> 0, page |-> 0, delete |-> 0]]_vars

C28_Witness ==
    /\ pc = "Aborted"
    /\ mode \notin {"bw", "gray", "color"}
    /\ jobId = ""
    /\ warmups = 0
    /\ ret = "throw"

\* C29: on a failed Feeder session the pages saved before the failure stay
\* on disk. When k >= 1 pages were saved and the session raises
\* (ADF_NO_DOCUMENT on a 500, SCANNER_BUSY once the attempts are used up),
\* the step that raises touches neither the files nor the list of paths,
\* the k files hold the k documents delivered, and the caller receives the
\* error and not the paths.
C29_SavedPagesStay ==
    /\ [][(source = "Feeder" /\ pc # "Aborted" /\ pc' = "Aborted" /\ delivered >= 1) =>
            /\ disk' = disk
            /\ filePaths' = filePaths
            /\ ret' = "throw"
            /\ err' \in {"ADF_NO_DOCUMENT", "SCANNER_BUSY"}]_vars
    /\ []((source = "Feeder" /\ pc = "Aborted" /\ delivered >= 1) =>
            /\ disk = FilesOf(delivered)
            /\ Len(filePaths) = delivered
            /\ ret = "throw")

C29_Witness ==
    /\ source = "Feeder"
    /\ pc = "Aborted"
    /\ err = "SCANNER_BUSY"
    /\ delivered = 2
    /\ disk = FilesOf(2)
    /\ ret = "throw"

\* No two entries of the array carry the same name.
UniqueNames(q) == \A i, j \in 1..Len(q) : q[i].name = q[j].name => i = j

\* The registry and the results never hold two devices of one name; a
\* success line that is processed leaves, for each name, its last entry; a
\* call during which no success line has come in sees an empty registry and
\* resolves with no device.
KeyedByName ==
    /\ UniqueNames(discovered)
    /\ UniqueNames(promise.data)
    /\ chunk # "none" =>
          \A l \in Lines :
              (l.kind = "success" /\ isProcessed(l)) =>
                  Holds(discoveredAfter(l), LastByName(l.scanners))
    /\ (promise.state = "pending" /\ firstSuccess = NoLine) => discovered = <<>>
    /\ (promise.state = "resolved" /\ firstSuccess = NoLine) => promise.data = <<>>

\* C30 (as stated): the registry is keyed by name, within one message a
\* later entry of a name overwrites the earlier one, nothing reported only
\* in an earlier attempt is part of a later attempt's result, and every call
\* of startDiscovery starts by emptying the registry.
C30_ClearedOnEveryAttempt ==
    /\ []KeyedByName
    /\ [][started' # started => discovered' = <<>>]_dvars

\* C30 (amended): as above, but the registry is emptied at the start of
\* every call that passes the validation of the helper's location; a call
\* that is rejected leaves the registry as it was and has no result.
C30_ClearedOnValidAttempt ==
    /\ []KeyedByName
    /\ [][started' # started =>
            /\ promise'.state = "pending" => discovered' = <<>>
            /\ promise'.state = "rejected" =>
                  (discovered' = discovered /\ promise'.data = <<>>)
            /\ promise'.state \in {"pending", "rejected"}]_dvars

C30_Witness ==
    /\ started = 2
    /\ promise.state = "resolved"
    /\ promise.by = "message"
    /\ firstSuccess.kind = "success"
    /\ Len(firstSuccess.scanners) = 2
    /\ firstSuccess.scanners[1].host # firstSuccess.scanners[2].host
    /\ promise.data = <<firstSuccess.scanners[2]>>
    /\ discovered = promise.data

\* C31: when the creation request is answered 200 or 201 with a Location
\* header naming the job, createScanJob returns the job id of that header,
\* whatever the body of the response holds.
C31_JobIdFromLocation ==
    (call.fn = "createScanJob"
        /\ httpPostOk(call.reply)
        /\ call.reply.location = JobUrlLocation) =>
        /\ out.kind = "return"
        /\ out.jobId = "b2"

\* C32: quickScan issues one job-creation request per session and never a
\* second one: a session whose mode is valid has issued exactly one once it
\* has started, the step that receives the answer either starts the warm-up
\* or raises at once without issuing any request, and a session whose
\* creation failed has issued no other request and has not used the 409
\* retry loop.
C32_CreateNeverRetried ==
    /\ [](/\ issued.create <= 1
          /\ (pc # "Created" /\ mode \in {"bw", "gray", "color"}) => issued.create = 1
          /\ (pc = "Aborted" /\ jobId = "") =>
                (issued.page = 0 /\ issued.delete = 0 /\ attempt = 0 /\ ret = "throw"))
    /\ [][(pc = "JobRequested" /\ inflight'.create < inflight.create) =>
            /\ pc' \in {"Warmup", "Aborted"}
            /\ issued' = issued
            /\ inflight'.create = 0]_vars

C32_Witness ==
    /\ pc = "Aborted"
    /\ err = "SCANNER_BUSY"
    /\ issued = [create |-> 1, page |-> 0, delete |-> 0]
    /\ attempt = 0
    /\ ret = "throw"

\* The creation request succeeded and the response holds no job id.
NoJobId(reply) == httpPostOk(reply) /\ jobMatch(httpPostData(reply)) = ""

\* C33: when the creation request succeeds and no job id can be extracted
\* from the response, createScanJob returns null and does not throw; the
\* session then ends with SCAN_JOB_FAILED without a warm-up, without any
\* NextDocument request and without a DELETE.
C33_NoJobIdFails ==
    /\ \A reply \in CreateReplies, src \in Sources :
          NoJobId(reply) =>
              /\ createScanJob(src, reply, Omitted, Omitted).kind = "return"
              /\ createScanJob(src, reply, Omitted, Omitted).jobId = ""
    /\ err = "SCAN_JOB_FAILED" =>
          /\ pc = "Aborted"
          /\ ret = "throw"
          /\ jobId = ""
          /\ warmups = 0
          /\ issued = [create |-> 1, page |-> 0, delete |-> 0]
          /\ inflight = [create |-> 0, page |-> 0, delete |-> 0]
          /\ disk = {}

C33_Witness ==
    /\ pc = "Aborted"
    /\ err = "SCAN_JOB_FAILED"
    /\ warmups = 0
    /\ issued.page = 0
    /\ issued.delete = 0

\* C34: whenever quickScan returns normally its result is a non-empty list
\* of paths, one per page delivered; the null of the final conditional is
\* never returned, a first page without data having raised.
C34_ResultNeverNull ==
    /\ ret # "null"
    /\ pc = "Done" =>
          /\ ret = "paths"
          /\ Len(filePaths) >= 1
          /\ Len(filePaths) = delivered
    /\ (pc \in {"Cleanup", "Done"}) => delivered >= 1

C34_Witness ==
    /\ pc = "Done"
    /\ ret = "paths"
    /\ source = "Platen"
    /\ Len(filePaths) = 1
    /\ deleteReply.kind = "neterr"

\* C35: the 409 retry budget belongs to the page. Every page of a Feeder
\* session starts with attempt 1 and a fresh count of requests, SCANNER_BUSY
\* is raised only when the page being retrieved has itself had 30 requests,
\* and a session that has retrieved N pages has issued at most 30 * (N + 1)
\* NextDocument requests.
C35_RetryBudgetPerPage ==
    /\ [](/\ issued.page <= 30 * (delivered + 1)
          /\ (err = "SCANNER_BUSY" /\ issued.page > 0) => pageReqs = 30)
    /\ [][/\ (pageNum >= 1 /\ pageNum' # pageNum) =>
                (pageNum' = pageNum + 1 /\ attempt' = 1 /\ pageReqs' = 1)
          /\ (pc = "RetryDelay" /\ pageReqs < 30) =>
                (pc' = "Downloading" /\ err' = err)]_vars

C35_Witness ==
    /\ source = "Feeder"
    /\ pc = "Done"
    /\ ret = "paths"
    /\ delivered = 2
    /\ issued.page = 90
    /\ err = ""

\* C36: when every request is eventually answered or fails, every session
\* eventually returns or raises, whatever the device answers.
C36_SessionTerminates == <>Ended

\* C37: a kill timer kills only a helper that was running when the cleanup
\* arming it ran: every helper that has been killed has been sent exit by a
\* cleanup, so a helper spawned after the old one exited is not killed by
\* the old timer.
C37_TimerKillsOwnHelper ==
    \A p \in 1..MaxAttempts : procs[p].killed => procs[p].exitSent

\* C38: every call writes its list command to a helper that has not been
\* sent exit: the helper the handle refers to when a call has started is not
\* one a cleanup has already asked to exit.
C38_ListToFreshHelper ==
    [][(started' # started /\ promise'.state = "pending" /\ pythonProcess' # 0) =>
            (procs'[pythonProcess'].listSent /\ ~procs'[pythonProcess'].exitSent)]_dvars

\* C39: the effect of the helper's output does not depend on how it is cut
\* into data events: wherever the handler is in its loop, a success line
\* that arrives in two pieces is processed when one of the pieces arrives,
\* with the registry and the resolution it has when it arrives whole.
C39_ChunkingIndependent ==
    chunk = "loop" =>
        \A l \in Lines :
            l.kind = "success" =>
                \E i \in 1..2 :
                    /\ isProcessed(cut(l)[i])
                    /\ discoveredAfter(cut(l)[i]) = discoveredAfter(l)
                    /\ isResolvedBy(l) => isResolvedBy(cut(l)[i])


====
